---- MODULE Spec2Model ----
(***************************************************************************)
(* Model of sync-wait-object: the portable WaitEvent<T> (a Mutex<T> and a  *)
(* Condvar behind an Arc) of src/src/lib.rs and its two boolean wrappers,  *)
(* ManualResetEvent and AutoResetEvent; and the native backend of          *)
(* src/src/windows.rs, WaitEvent(HANDLE) over a Win32 event object (its    *)
(* threads and variables are described with NativeSpec below).             *)
(*                                                                         *)
(* A thread is at one of these places:                                     *)
(*   "idle"     not in a call; result[t] is what its last call returned    *)
(*   "lock"     in a call, waiting for Mutex::lock (lib.rs 96, 151, 187)   *)
(*   "check"    holds the guard, about to run waiter() and checker         *)
(*              (lib.rs 153-155 the first time, 163-165 after a wake)      *)
(*   "blocked"  inside Condvar::wait / wait_timeout, guard released        *)
(*   "relock"   woken, re-acquiring the mutex inside Condvar::wait*        *)
(*   "reset"    wait_with_waiter returned Ok(guard) to                     *)
(*              wait_and_reset_with_waiter; mem::replace is next (172)     *)
(*   "hold"     the caller holds the MutexGuard returned by value()/wait() *)
(*   "panicked" the thread panicked while it held the guard                *)
(* Time is counted per call: elapsed[t] is Instant::now() - start of the   *)
(* waiter closure made by create_waiter.                                   *)
(***************************************************************************)
EXTENDS Integers

\* ---------------------------------------------------------------- bounds
MaxVal == 1
MaxTimeout == 2
MaxSets == 2

\* The threads, each owning one clone of the same event. For the generic
\* WaitEvent<T>: two threads, each making any call. For ManualResetEvent and
\* AutoResetEvent: two threads that wait and one that calls set() and reset().
GenericThreads == {1, 2}
Waiters == {1, 2}
Signallers == {3}
EventThreads == Waiters \cup Signallers
Values == 0..MaxVal

\* ------------------------------------------------- Option<Duration>, closures
None == [some |-> FALSE, d |-> 0]
Some(n) == [some |-> TRUE, d |-> n]
Durations == {0, 1, MaxTimeout}
Timeouts == {None} \cup {Some(n) : n \in Durations}

\* the checker closures |i| *i == k of the doc examples, and |v| *v of the events
Checkers == [rel : {"eq"}, k : Values]
IsSet == [rel |-> "istrue", k |-> 0]

checker(c, v) ==
    CASE c.rel = "eq" -> v = c.k
      [] c.rel = "istrue" -> v = TRUE

\* ------------------------------------------------------------------ state
VARIABLES
    value,      \* the T inside the Mutex
    owner,      \* the thread holding a MutexGuard, 0 when unlocked
    poisoned,   \* the mutex's poison flag
    pc,         \* where each thread is
    call,       \* each thread's current call and its arguments
    elapsed,    \* Instant::now() - start of the call's waiter
    deadline,   \* the elapsed time at which the current wait_timeout ends
    result,     \* what each thread's last call returned
    satIn,      \* history: a value satisfying the call's checker was stored
                \* while the call's time budget had not yet elapsed
    initial,    \* history: the initial_state the event was constructed with
    signal,     \* history: what the last set()/reset() to take effect (or
                \* the constructor) made the event: TRUE set, FALSE reset
    nSet,       \* history: the set() calls that have taken effect
    nOk,        \* history: the AutoResetEvent waits that have returned Ok
    anyReset,   \* history: a reset() has taken effect
    sinceSet,   \* history: waits that returned Ok since the last set()
    seen,       \* history: per wait call, the signals the event had during it
    os,         \* native backend: the OS event object behind the HANDLE
    handle      \* native backend: the HANDLE each clone's WaitEvent(HANDLE) holds

core == <<value, owner, poisoned, pc, call, elapsed, deadline, result, satIn>>
hist == <<initial, signal, nSet, nOk, anyReset, sinceSet, seen>>
native == <<os, handle>>
vars == <<core, hist, native>>

Threads == DOMAIN pc

NoCall == [op |-> "none", timeout |-> None, checker |-> IsSet, arg |-> 0]
NoResult == [op |-> "none", kind |-> "none", val |-> 0]

IsWait(t) == call[t].op \in {"wait", "wait_reset"}

\* mutant of waiter: the comparison the wrong way round
waiterInverted(timeout, el) == IF timeout.some THEN el > timeout.d ELSE TRUE

\* the closure create_waiter returns, applied when el has elapsed since start
waiter(timeout, el) == IF timeout.some THEN el < timeout.d ELSE TRUE

\* the Duration wait_with_waiter hands to Condvar::wait_timeout
WaitDuration(timeout, el) == timeout.d

\* thread u is in a wait whose budget has not yet elapsed
Within(u) ==
    /\ IsWait(u)
    /\ pc[u] \in {"check", "blocked", "relock"}
    /\ waiter(call[u].timeout, elapsed[u])

\* the history variable after thread w has stored v
Stored(w, v) ==
    [u \in Threads |->
        IF u # w /\ Within(u) /\ checker(call[u].checker, v) THEN TRUE ELSE satIn[u]]

\* mutant of NotifyAll: nobody is notified
NoNotify == pc

\* mutant of NotifyAll: Condvar::notify_one, only one blocked thread is woken
NotifyOne ==
    [u \in DOMAIN pc |->
        IF pc[u] = "blocked" /\ \A x \in DOMAIN pc : pc[x] = "blocked" => u <= x
        THEN "relock" ELSE pc[u]]

\* Condvar::notify_all: every thread inside Condvar::wait* starts to re-lock
NotifyAll == [u \in Threads |-> IF pc[u] = "blocked" THEN "relock" ELSE pc[u]]

\* WaitEvent::new_init(initial_state), cloned once for each thread of T
new_init(initial_state, T) ==
    /\ value = initial_state
    /\ owner = 0
    /\ poisoned = FALSE
    /\ pc = [t \in T |-> "idle"]
    /\ call = [t \in T |-> NoCall]
    /\ elapsed = [t \in T |-> 0]
    /\ deadline = [t \in T |-> 0]
    /\ result = [t \in T |-> NoResult]
    /\ satIn = [t \in T |-> FALSE]

\* the history variables of an event constructed with initial_state
HistInit(initial_state, T) ==
    /\ initial = initial_state
    /\ signal = initial_state
    /\ nSet = 0
    /\ nOk = 0
    /\ anyReset = FALSE
    /\ sinceSet = 0
    /\ seen = [t \in T |-> {}]

\* the portable events have no OS object and no HANDLE
NoNative(T) ==
    /\ os = [manual |-> FALSE, signaled |-> FALSE, object |-> "none", closes |-> 0]
    /\ handle = [t \in T |-> "invalid"]

Init ==
    \E v0 \in Values :
        new_init(v0, GenericThreads) /\ HistInit(0, GenericThreads) /\ NoNative(GenericThreads)

\* ------------------------------------------------------------ the calls
Begin(t, c) ==
    /\ pc[t] = "idle"
    /\ pc' = [pc EXCEPT ![t] = "lock"]
    /\ call' = [call EXCEPT ![t] = c]
    /\ result' = [result EXCEPT ![t] = NoResult]
    /\ satIn' = [satIn EXCEPT ![t] = FALSE]
    /\ UNCHANGED <<value, owner, poisoned, elapsed, deadline>>

CallValue(t) ==
    Begin(t, [op |-> "value", timeout |-> None, checker |-> IsSet, arg |-> 0])

CallWait(t, timeout, c) ==
    Begin(t, [op |-> "wait", timeout |-> timeout, checker |-> c, arg |-> 0])

CallWaitReset(t, timeout, r, c) ==
    Begin(t, [op |-> "wait_reset", timeout |-> timeout, checker |-> c, arg |-> r])

CallSetState(t, v) ==
    Begin(t, [op |-> "set_state", timeout |-> None, checker |-> IsSet, arg |-> v])

\* the call of thread t returns: kind is Ok, Timeout or SynchronizationBroken
\* (impl From<PoisonError<T>> for WaitObjectError), v the value inside Ok
Returned(t, kind, v) ==
    /\ result' = [result EXCEPT ![t] = [op |-> call[t].op, kind |-> kind, val |-> v]]
    /\ call' = [call EXCEPT ![t] = NoCall]
    /\ elapsed' = [elapsed EXCEPT ![t] = 0]
    /\ deadline' = [deadline EXCEPT ![t] = 0]

Idle(t) == pc' = [pc EXCEPT ![t] = "idle"]

\* WaitEvent::value: lock, and hand the guard to the caller
Value(t) ==
    /\ pc[t] = "lock" /\ call[t].op = "value" /\ owner = 0
    /\ IF poisoned
       THEN Idle(t) /\ Returned(t, "SynchronizationBroken", 0) /\ UNCHANGED owner
       ELSE /\ owner' = t
            /\ pc' = [pc EXCEPT ![t] = "hold"]
            /\ Returned(t, "Ok", value)
    /\ UNCHANGED <<value, poisoned, satIn>>

\* mutant of SetState: the value is written without taking the mutex
SetStateNoLock(t) ==
    /\ pc[t] = "lock" /\ call[t].op = "set_state"
    /\ value' = call[t].arg
    /\ pc' = [NotifyAll EXCEPT ![t] = "idle"]
    /\ Returned(t, "Ok", 0)
    /\ satIn' = Stored(t, call[t].arg)
    /\ UNCHANGED <<owner, poisoned>>

\* mutant of SetState: the PoisonError is unwrapped (into_inner) and the
\* write goes ahead
SetStateIgnoresPoison(t) ==
    /\ pc[t] = "lock" /\ call[t].op = "set_state" /\ owner = 0
    /\ value' = call[t].arg
    /\ pc' = [NotifyAll EXCEPT ![t] = "idle"]
    /\ Returned(t, "Ok", 0)
    /\ satIn' = Stored(t, call[t].arg)
    /\ UNCHANGED <<owner, poisoned>>

\* WaitEvent::set_state: lock, overwrite, notify_all, unlock
SetState(t) ==
    /\ pc[t] = "lock" /\ call[t].op = "set_state" /\ owner = 0
    /\ IF poisoned
       THEN /\ Idle(t) /\ Returned(t, "SynchronizationBroken", 0)
            /\ UNCHANGED <<value, satIn>>
       ELSE /\ value' = call[t].arg
            /\ pc' = [NotifyAll EXCEPT ![t] = "idle"]
            /\ Returned(t, "Ok", 0)
            /\ satIn' = Stored(t, call[t].arg)
    /\ UNCHANGED <<owner, poisoned>>

\* wait_with_waiter, lines 151-152: lock, then create_waiter takes the start
WaitLock(t) ==
    /\ pc[t] = "lock" /\ IsWait(t) /\ owner = 0
    /\ IF poisoned
       THEN /\ Idle(t) /\ Returned(t, "SynchronizationBroken", 0)
            /\ UNCHANGED <<owner, satIn>>
       ELSE /\ owner' = t
            /\ pc' = [pc EXCEPT ![t] = "check"]
            /\ satIn' = [satIn EXCEPT ![t] = checker(call[t].checker, value)]
            /\ UNCHANGED <<result, call, elapsed, deadline>>
    /\ UNCHANGED <<value, poisoned>>

\* mutant of Matched: the guard is dropped at the match, so that the
\* replacement would be a second critical section
MatchedUnlocked(t) ==
    /\ IF call[t].op = "wait"
       THEN /\ pc' = [pc EXCEPT ![t] = "hold"]
            /\ Returned(t, "Ok", value)
            /\ UNCHANGED owner
       ELSE /\ pc' = [pc EXCEPT ![t] = "reset"]
            /\ owner' = 0
            /\ UNCHANGED <<result, call, elapsed, deadline>>
    /\ UNCHANGED value

\* wait_with_waiter, line 166: if pass { Ok(state) }. The guard goes to the
\* caller of wait(), or to the closure of wait_and_reset_with_waiter
Matched(t) ==
    /\ IF call[t].op = "wait"
       THEN /\ pc' = [pc EXCEPT ![t] = "hold"]
            /\ Returned(t, "Ok", value)
       ELSE /\ pc' = [pc EXCEPT ![t] = "reset"]
            /\ UNCHANGED <<result, call, elapsed, deadline>>
    /\ UNCHANGED <<value, owner>>

\* wait_with_waiter, lines 156-162: cond.wait_timeout(state, t) or
\* cond.wait(state) releases the mutex and blocks
Block(t) ==
    /\ owner' = 0
    /\ pc' = [pc EXCEPT ![t] = "blocked"]
    /\ deadline' = [deadline EXCEPT ![t] =
           elapsed[t] + WaitDuration(call[t].timeout, elapsed[t])]
    /\ UNCHANGED <<value, result, call, elapsed>>

\* mutant of TimedOut: a wait_reset stores reset() on the Timeout path too
TimedOutResets(t) ==
    /\ owner' = 0
    /\ Idle(t) /\ Returned(t, "Timeout", 0)
    /\ value' = IF call[t].op = "wait_reset" THEN call[t].arg ELSE value

\* wait_with_waiter, line 167: else { Err(WaitObjectError::Timeout) }
TimedOut(t) ==
    /\ owner' = 0
    /\ Idle(t) /\ Returned(t, "Timeout", 0)
    /\ UNCHANGED value

\* mutant of WaitCheck: the budget is looked at before the predicate
WaitCheckBudgetFirst(t) ==
    /\ pc[t] = "check" /\ owner = t
    /\ LET continue_wait == waiter(call[t].timeout, elapsed[t])
           pass == checker(call[t].checker, value)
       IN  IF ~continue_wait THEN TimedOut(t)
           ELSE IF pass THEN Matched(t)
           ELSE Block(t)
    /\ UNCHANGED <<poisoned, satIn>>

\* wait_with_waiter, lines 153-167: continue_wait = waiter(); pass =
\* checker(&*state); while continue_wait && !pass { block }; Ok or Timeout
WaitCheck(t) ==
    /\ pc[t] = "check" /\ owner = t
    /\ LET continue_wait == waiter(call[t].timeout, elapsed[t])
           pass == checker(call[t].checker, value)
       IN  IF continue_wait /\ ~pass THEN Block(t)
           ELSE IF pass THEN Matched(t)
           ELSE TimedOut(t)
    /\ UNCHANGED <<poisoned, satIn>>

\* Condvar::wait_timeout's time is up
TimeoutWake(t) ==
    /\ pc[t] = "blocked" /\ call[t].timeout.some
    /\ elapsed[t] >= deadline[t]
    /\ pc' = [pc EXCEPT ![t] = "relock"]
    /\ UNCHANGED <<value, owner, poisoned, call, elapsed, deadline, result, satIn>>

\* Condvar::wait and wait_timeout may wake with no notification
SpuriousWake(t) ==
    /\ pc[t] = "blocked"
    /\ pc' = [pc EXCEPT ![t] = "relock"]
    /\ UNCHANGED <<value, owner, poisoned, call, elapsed, deadline, result, satIn>>

\* mutant of Relock: the poison flag is ignored (the guard is taken out of
\* the PoisonError)
RelockIgnoresPoison(t) ==
    /\ pc[t] = "relock" /\ owner = 0
    /\ owner' = t
    /\ pc' = [pc EXCEPT ![t] = "check"]
    /\ deadline' = [deadline EXCEPT ![t] = 0]
    /\ UNCHANGED <<result, call, elapsed, value, poisoned, satIn>>

\* mutant of Relock: a wake is taken for success, the loop is an `if` and
\* checker is not evaluated again
RelockNoRecheck(t) ==
    /\ pc[t] = "relock" /\ owner = 0
    /\ IF poisoned
       THEN /\ Idle(t) /\ Returned(t, "SynchronizationBroken", 0)
            /\ UNCHANGED owner
       ELSE /\ owner' = t
            /\ IF call[t].op = "wait"
               THEN pc' = [pc EXCEPT ![t] = "hold"] /\ Returned(t, "Ok", value)
               ELSE /\ pc' = [pc EXCEPT ![t] = "reset"]
                    /\ deadline' = [deadline EXCEPT ![t] = 0]
                    /\ UNCHANGED <<result, call, elapsed>>
    /\ UNCHANGED <<value, poisoned, satIn>>

\* Condvar::wait* re-acquires the mutex before it returns (lines 158, 161)
Relock(t) ==
    /\ pc[t] = "relock" /\ owner = 0
    /\ IF poisoned
       THEN /\ Idle(t) /\ Returned(t, "SynchronizationBroken", 0)
            /\ UNCHANGED owner
       ELSE /\ owner' = t
            /\ pc' = [pc EXCEPT ![t] = "check"]
            /\ deadline' = [deadline EXCEPT ![t] = 0]
            /\ UNCHANGED <<result, call, elapsed>>
    /\ UNCHANGED <<value, poisoned, satIn>>

\* mutant of Replace: the matched value is returned but reset() is not stored
ReplaceKeeps(t) ==
    /\ pc[t] = "reset" /\ owner = t
    /\ owner' = 0
    /\ Idle(t) /\ Returned(t, "Ok", value)
    /\ UNCHANGED <<value, poisoned, satIn>>

\* wait_and_reset_with_waiter, line 172: mem::replace(g, reset()), drop g
Replace(t) ==
    /\ pc[t] = "reset" /\ owner = t
    /\ value' = call[t].arg
    /\ owner' = 0
    /\ Idle(t) /\ Returned(t, "Ok", value)
    /\ satIn' = Stored(t, call[t].arg)
    /\ UNCHANGED poisoned

\* the caller drops the MutexGuard it got from value() or wait()
DropGuard(t) ==
    /\ pc[t] = "hold" /\ owner = t
    /\ owner' = 0
    /\ Idle(t)
    /\ UNCHANGED <<value, poisoned, call, elapsed, deadline, result, satIn>>

\* a panic in checker, in reset, or in the caller that holds a guard: the
\* guard is dropped while panicking, which poisons the mutex
Panic(t) ==
    /\ pc[t] \in {"check", "reset", "hold"} /\ owner = t
    /\ poisoned' = TRUE
    /\ owner' = 0
    /\ pc' = [pc EXCEPT ![t] = "panicked"]
    /\ call' = [call EXCEPT ![t] = NoCall]
    /\ elapsed' = [elapsed EXCEPT ![t] = 0]
    /\ deadline' = [deadline EXCEPT ![t] = 0]
    /\ result' = [result EXCEPT ![t] = NoResult]
    /\ UNCHANGED <<value, satIn>>

\* Time passes for every call that has a waiter with a timeout. elapsed[t]
\* is only ever compared with the call's timeout (waiter) and with the
\* deadline of its wait_timeout (TimeoutWake), so it is counted up to the
\* later of the two and no further.
Timed(t) == IsWait(t) /\ call[t].timeout.some
                /\ pc[t] \in {"check", "blocked", "relock", "reset"}
Horizon(t) == IF deadline[t] > call[t].timeout.d THEN deadline[t] ELSE call[t].timeout.d
Tick ==
    /\ \E t \in Threads : Timed(t) /\ elapsed[t] < Horizon(t)
    /\ elapsed' = [t \in Threads |->
           IF Timed(t) /\ elapsed[t] < Horizon(t) THEN elapsed[t] + 1 ELSE elapsed[t]]
    /\ UNCHANGED <<value, owner, poisoned, pc, call, deadline, result, satIn>>

\* ----------------------------------------- WaitEvent<T>, the generic primitive
Next ==
    \/ \E t \in Threads : CallValue(t) /\ UNCHANGED <<hist, native>>
    \/ \E t \in Threads, timeout \in Timeouts, c \in Checkers :
           CallWait(t, timeout, c) /\ UNCHANGED <<hist, native>>
    \/ \E t \in Threads, timeout \in Timeouts, r \in Values, c \in Checkers :
           CallWaitReset(t, timeout, r, c) /\ UNCHANGED <<hist, native>>
    \/ \E t \in Threads, v \in Values : CallSetState(t, v) /\ UNCHANGED <<hist, native>>
    \/ \E t \in Threads : Value(t) /\ UNCHANGED <<hist, native>>
    \/ \E t \in Threads : SetState(t) /\ UNCHANGED <<hist, native>>
    \/ \E t \in Threads : WaitLock(t) /\ UNCHANGED <<hist, native>>
    \/ \E t \in Threads : WaitCheck(t) /\ UNCHANGED <<hist, native>>
    \/ \E t \in Threads : TimeoutWake(t) /\ UNCHANGED <<hist, native>>
    \/ \E t \in Threads : SpuriousWake(t) /\ UNCHANGED <<hist, native>>
    \/ \E t \in Threads : Relock(t) /\ UNCHANGED <<hist, native>>
    \/ \E t \in Threads : Replace(t) /\ UNCHANGED <<hist, native>>
    \/ \E t \in Threads : DropGuard(t) /\ UNCHANGED <<hist, native>>
    \/ \E t \in Threads : Panic(t) /\ UNCHANGED <<hist, native>>
    \/ Tick /\ UNCHANGED <<hist, native>>

Spec == Init /\ [][Next]_vars

\* ------------------------- WaitEvent<T>: one waiting thread, one other thread
\* Thread 1 waits (wait, wait_reset), thread 2 writes and reads (set_state,
\* value); either may panic while it holds the guard. Every thread that can
\* take a step of its call eventually takes it (a thread that needs the
\* mutex gets it if it is free again and again, a caller drops the guard it
\* holds), and time passes. Nothing obliges a thread to make a call, to
\* panic, or to wake without a notification.
Waiter == 1
Other == 2

Progress(t) ==
    /\ \/ Value(t) \/ SetState(t) \/ WaitLock(t) \/ WaitCheck(t) \/ TimeoutWake(t)
       \/ Relock(t) \/ Replace(t) \/ DropGuard(t)
    /\ UNCHANGED <<hist, native>>

FairNext ==
    \/ \E timeout \in Timeouts, c \in Checkers : CallWait(Waiter, timeout, c) /\ UNCHANGED <<hist, native>>
    \/ \E timeout \in Timeouts, r \in Values, c \in Checkers :
           CallWaitReset(Waiter, timeout, r, c) /\ UNCHANGED <<hist, native>>
    \/ CallValue(Other) /\ UNCHANGED <<hist, native>>
    \/ \E v \in Values : CallSetState(Other, v) /\ UNCHANGED <<hist, native>>
    \/ \E t \in Threads : Value(t) /\ UNCHANGED <<hist, native>>
    \/ \E t \in Threads : SetState(t) /\ UNCHANGED <<hist, native>>
    \/ \E t \in Threads : WaitLock(t) /\ UNCHANGED <<hist, native>>
    \/ \E t \in Threads : WaitCheck(t) /\ UNCHANGED <<hist, native>>
    \/ \E t \in Threads : TimeoutWake(t) /\ UNCHANGED <<hist, native>>
    \/ \E t \in Threads : SpuriousWake(t) /\ UNCHANGED <<hist, native>>
    \/ \E t \in Threads : Relock(t) /\ UNCHANGED <<hist, native>>
    \/ \E t \in Threads : Replace(t) /\ UNCHANGED <<hist, native>>
    \/ \E t \in Threads : DropGuard(t) /\ UNCHANGED <<hist, native>>
    \/ \E t \in Threads : Panic(t) /\ UNCHANGED <<hist, native>>
    \/ Tick /\ UNCHANGED <<hist, native>>

FairSpec ==
    /\ Init
    /\ [][FairNext]_vars
    /\ \A t \in GenericThreads : SF_vars(Progress(t))
    /\ WF_vars(Tick /\ UNCHANGED <<hist, native>>)

\* --------------- WaitEvent<T>: two waiting threads and a reader and writer
\* Threads 1 and 2 call wait(None, checker), thread 3 calls set_state and
\* value; any of them may panic while it holds the guard.
PoisonInit ==
    \E v0 \in Values :
        new_init(v0, EventThreads) /\ HistInit(0, EventThreads) /\ NoNative(EventThreads)

PoisonNext ==
    \/ \E t \in Waiters, c \in Checkers : CallWait(t, None, c) /\ UNCHANGED <<hist, native>>
    \/ \E t \in Signallers : CallValue(t) /\ UNCHANGED <<hist, native>>
    \/ \E t \in Signallers, v \in Values : CallSetState(t, v) /\ UNCHANGED <<hist, native>>
    \/ \E t \in Threads : Value(t) /\ UNCHANGED <<hist, native>>
    \/ \E t \in Threads : SetState(t) /\ UNCHANGED <<hist, native>>
    \/ \E t \in Threads : WaitLock(t) /\ UNCHANGED <<hist, native>>
    \/ \E t \in Threads : WaitCheck(t) /\ UNCHANGED <<hist, native>>
    \/ \E t \in Threads : SpuriousWake(t) /\ UNCHANGED <<hist, native>>
    \/ \E t \in Threads : Relock(t) /\ UNCHANGED <<hist, native>>
    \/ \E t \in Threads : DropGuard(t) /\ UNCHANGED <<hist, native>>
    \/ \E t \in Threads : Panic(t) /\ UNCHANGED <<hist, native>>

PoisonSpec == PoisonInit /\ [][PoisonNext]_vars

\* ------------------------------------ ManualResetEvent and AutoResetEvent
\* ManualResetEvent::new_init / AutoResetEvent::new_init
EventInit ==
    \E b \in BOOLEAN :
        new_init(b, EventThreads) /\ HistInit(b, EventThreads) /\ NoNative(EventThreads)

\* impl SignalWaitable for ManualResetEvent: self.0.wait(.., |v| *v).map(|g| *g)
\* (the guard is dropped by map: DropGuard), set_state(true), set_state(false)
Manual_wait_until_set(t) == CallWait(t, None, IsSet)
Manual_wait(t, timeout) == CallWait(t, Some(timeout), IsSet)
Manual_set(t) == CallSetState(t, TRUE)
Manual_reset(t) == CallSetState(t, FALSE)

\* mutants of Auto_wait_until_set and Auto_wait: the reset closure is || true
Auto_wait_until_set_true(t) == CallWaitReset(t, None, TRUE, IsSet)
Auto_wait_true(t, timeout) == CallWaitReset(t, Some(timeout), TRUE, IsSet)

\* impl SignalWaitable for AutoResetEvent: self.0.wait_reset(.., || false, |v| *v)
Auto_wait_until_set(t) == CallWaitReset(t, None, FALSE, IsSet)
Auto_wait(t, timeout) == CallWaitReset(t, Some(timeout), FALSE, IsSet)
Auto_set(t) == CallSetState(t, TRUE)
Auto_reset(t) == CallSetState(t, FALSE)

\* history: a wait call begins
SeenBegin(t) ==
    /\ seen' = [seen EXCEPT ![t] = {value}]
    /\ UNCHANGED <<initial, signal, nSet, nOk, anyReset, sinceSet>>

\* history of the ManualResetEvent: the set() or reset() of thread t takes effect
Min(a, b) == IF a < b THEN a ELSE b
ManualEffect(t) ==
    LET b == call[t].arg IN
    /\ signal' = b
    /\ seen' = [u \in Threads |->
                   IF pc[u] \in {"lock", "check", "blocked", "relock"} /\ IsWait(u)
                   THEN seen[u] \cup {b} ELSE seen[u]]
    /\ UNCHANGED <<initial, nSet, nOk, anyReset, sinceSet>>

\* history of the AutoResetEvent: the set() or reset() of thread t takes effect
AutoEffect(t) ==
    LET b == call[t].arg IN
    /\ signal' = b
    /\ nSet' = IF b THEN nSet + 1 ELSE nSet
    /\ anyReset' = IF b THEN anyReset ELSE TRUE
    /\ sinceSet' = IF b THEN 0 ELSE sinceSet
    /\ UNCHANGED <<initial, nOk, seen>>

\* history: a wait of the AutoResetEvent returns Ok
OkEffect ==
    /\ nOk' = Min(nOk + 1, MaxSets + 2)
    /\ sinceSet' = Min(sinceSet + 1, 2)
    /\ UNCHANGED <<initial, signal, nSet, anyReset, seen>>

ManualNext ==
    \/ \E t \in Waiters : Manual_wait_until_set(t) /\ SeenBegin(t) /\ UNCHANGED native
    \/ \E t \in Waiters, d \in Durations : Manual_wait(t, d) /\ SeenBegin(t) /\ UNCHANGED native
    \/ \E t \in Signallers : Manual_set(t) /\ UNCHANGED <<hist, native>>
    \/ \E t \in Signallers : Manual_reset(t) /\ UNCHANGED <<hist, native>>
    \/ \E t \in Threads : SetState(t) /\ ManualEffect(t) /\ UNCHANGED native
    \/ \E t \in Threads : WaitLock(t) /\ UNCHANGED <<hist, native>>
    \/ \E t \in Threads : WaitCheck(t) /\ UNCHANGED <<hist, native>>
    \/ \E t \in Threads : TimeoutWake(t) /\ UNCHANGED <<hist, native>>
    \/ \E t \in Threads : SpuriousWake(t) /\ UNCHANGED <<hist, native>>
    \/ \E t \in Threads : Relock(t) /\ UNCHANGED <<hist, native>>
    \/ \E t \in Threads : DropGuard(t) /\ UNCHANGED <<hist, native>>
    \/ Tick /\ UNCHANGED <<hist, native>>

ManualSpec == EventInit /\ [][ManualNext]_vars

\* ManualResetEvent, wait_until_set() only, with threads that are scheduled
\* fairly: a thread that can take a step of its call eventually takes it.
\* Nothing obliges a thread to make a call or to wake without a notification.
ManualProgress(t) ==
    /\ \/ WaitLock(t) \/ WaitCheck(t) \/ Relock(t) \/ DropGuard(t)
    /\ UNCHANGED <<hist, native>>

ManualFairNext ==
    \/ \E t \in Waiters : Manual_wait_until_set(t) /\ SeenBegin(t) /\ UNCHANGED native
    \/ \E t \in Signallers : Manual_set(t) /\ UNCHANGED <<hist, native>>
    \/ \E t \in Signallers : Manual_reset(t) /\ UNCHANGED <<hist, native>>
    \/ \E t \in Threads : SetState(t) /\ ManualEffect(t) /\ UNCHANGED native
    \/ \E t \in Threads : WaitLock(t) /\ UNCHANGED <<hist, native>>
    \/ \E t \in Threads : WaitCheck(t) /\ UNCHANGED <<hist, native>>
    \/ \E t \in Threads : SpuriousWake(t) /\ UNCHANGED <<hist, native>>
    \/ \E t \in Threads : Relock(t) /\ UNCHANGED <<hist, native>>
    \/ \E t \in Threads : DropGuard(t) /\ UNCHANGED <<hist, native>>

ManualFairSpec ==
    /\ EventInit
    /\ [][ManualFairNext]_vars
    /\ \A t \in EventThreads : SF_vars(ManualProgress(t))
    /\ \A t \in EventThreads : SF_vars(SetState(t) /\ ManualEffect(t) /\ UNCHANGED native)

AutoNext ==
    \/ \E t \in Waiters : Auto_wait_until_set(t) /\ UNCHANGED <<hist, native>>
    \/ \E t \in Waiters, d \in Durations : Auto_wait(t, d) /\ UNCHANGED <<hist, native>>
    \/ \E t \in Signallers : nSet < MaxSets /\ Auto_set(t) /\ UNCHANGED <<hist, native>>
    \/ \E t \in Signallers : Auto_reset(t) /\ UNCHANGED <<hist, native>>
    \/ \E t \in Threads : SetState(t) /\ AutoEffect(t) /\ UNCHANGED native
    \/ \E t \in Threads : WaitLock(t) /\ UNCHANGED <<hist, native>>
    \/ \E t \in Threads : WaitCheck(t) /\ UNCHANGED <<hist, native>>
    \/ \E t \in Threads : TimeoutWake(t) /\ UNCHANGED <<hist, native>>
    \/ \E t \in Threads : SpuriousWake(t) /\ UNCHANGED <<hist, native>>
    \/ \E t \in Threads : Relock(t) /\ UNCHANGED <<hist, native>>
    \/ \E t \in Threads : Replace(t) /\ OkEffect /\ UNCHANGED native
    \/ Tick /\ UNCHANGED <<hist, native>>

AutoSpec == EventInit /\ [][AutoNext]_vars

\* ------------------------------------------- the native backend (windows.rs)
\* WaitEvent(HANDLE): every clone holds a copy of the HANDLE that CreateEventA
\* returned. os is the event object of the OS: manual-reset or auto-reset
\* (bManualReset), signaled or not, and whether the HANDLE value is still
\* open; os.closes counts the CloseHandle calls made with that value. A
\* thread is "idle", "oscall" (entering WaitForSingleObject), "oswait"
\* (blocked inside it), "released" (its wait has been satisfied by SetEvent)
\* or "dropped" (its clone has been dropped).
\* A Duration in milliseconds (Duration::as_millis, a u128) is written in
\* base 2^16: Millis(k, a, b) is k * 2^32 + a * 2^16 + b. The u32 that
\* WaitForSingleObject takes has k = 0.
Millis(k, a, b) == [wraps |-> k, h16 |-> a, l16 |-> b]
INFINITE == Millis(0, 65535, 65535)

\* Duration::as_millis of a Duration of whole milliseconds, and `as u32`,
\* which keeps the low 32 bits
as_millis(d) == d
AsU32(n) == [n EXCEPT !.wraps = 0]

\* el milliseconds (a small number) are at least the milliseconds n
Reached(el, n) == n.wraps = 0 /\ n.h16 = 0 /\ el >= n.l16

NativeDurations ==
    {Millis(0, 0, 0), Millis(0, 0, 1), Millis(0, 0, MaxTimeout),
     INFINITE, Millis(1, 0, 0), Millis(1, 0, 1)}

portable == <<value, owner, poisoned, satIn>>

\* ManualResetEvent::new_init / AutoResetEvent::new_init of windows.rs:
\* CreateEventA(None, manual, initial_state, None), cloned for each thread
NativeInit ==
    \E manual \in BOOLEAN, initial_state \in BOOLEAN :
        /\ new_init(FALSE, EventThreads) /\ HistInit(FALSE, EventThreads)
        /\ os = [manual |-> manual, signaled |-> initial_state,
                 object |-> "open", closes |-> 0]
        /\ handle = [t \in EventThreads |-> "event"]

\* native_wait: the match on what WaitForSingleObject returned
native_wait(ret) ==
    CASE ret = "WAIT_OBJECT_0" -> [kind |-> "Ok", val |-> TRUE]
      [] ret = "WAIT_TIMEOUT" -> [kind |-> "Ok", val |-> FALSE]
      [] ret = "WAIT_FAILED" -> [kind |-> "OsError", val |-> 0]

NativeReturned(t, r) == Idle(t) /\ Returned(t, r.kind, r.val)

NativeBegin(t, c) ==
    /\ pc[t] = "idle"
    /\ pc' = [pc EXCEPT ![t] = "oscall"]
    /\ call' = [call EXCEPT ![t] = c]
    /\ result' = [result EXCEPT ![t] = NoResult]
    /\ UNCHANGED <<elapsed, deadline, os, handle>>

\* impl SignalWaitable for WaitEvent: call[t].arg is the u32 given to native_wait
Native_wait_until_set(t) ==
    NativeBegin(t, [op |-> "wait_until_set", timeout |-> None, checker |-> IsSet,
                    arg |-> INFINITE])
Native_wait(t, timeout) ==
    NativeBegin(t, [op |-> "wait", timeout |-> Some(timeout), checker |-> IsSet,
                    arg |-> AsU32(as_millis(timeout))])

\* WaitForSingleObject(self.0, timeout) is entered: an invalid handle fails,
\* a signaled event satisfies the wait at once (an auto-reset event is
\* reset by it), otherwise the thread blocks
WaitForSingleObject(t) ==
    /\ pc[t] = "oscall"
    /\ IF os.object # "open"
       THEN NativeReturned(t, native_wait("WAIT_FAILED")) /\ UNCHANGED os
       ELSE IF os.signaled
       THEN /\ NativeReturned(t, native_wait("WAIT_OBJECT_0"))
            /\ os' = [os EXCEPT !.signaled = os.manual]
       ELSE /\ pc' = [pc EXCEPT ![t] = "oswait"]
            /\ UNCHANGED <<call, elapsed, deadline, result, os>>
    /\ UNCHANGED handle

\* a wait that SetEvent has satisfied returns WAIT_OBJECT_0
WaitReleased(t) ==
    /\ pc[t] = "released"
    /\ NativeReturned(t, native_wait("WAIT_OBJECT_0"))
    /\ UNCHANGED <<os, handle>>

\* the time given to WaitForSingleObject is up: WAIT_TIMEOUT
WaitTimeout(t) ==
    /\ pc[t] = "oswait"
    /\ call[t].arg # INFINITE /\ Reached(elapsed[t], call[t].arg)
    /\ NativeReturned(t, native_wait("WAIT_TIMEOUT"))
    /\ UNCHANGED <<os, handle>>

\* the handle was closed while the wait was pending: the behaviour of
\* WaitForSingleObject is undefined, it may return anything or go on waiting
WaitOnClosed(t) ==
    /\ pc[t] = "oswait" /\ os.object = "closed"
    /\ \E ret \in {"WAIT_OBJECT_0", "WAIT_TIMEOUT", "WAIT_FAILED"} :
           NativeReturned(t, native_wait(ret))
    /\ UNCHANGED <<os, handle>>

\* to_result(SetEvent(self.0)): a manual-reset event becomes signaled and
\* every pending wait is satisfied; an auto-reset event satisfies one pending
\* wait and stays nonsignaled, or becomes signaled if no thread waits
Native_set(t) ==
    /\ pc[t] = "idle"
    /\ IF os.object # "open"
       THEN /\ result' = [result EXCEPT ![t] = [op |-> "set", kind |-> "OsError", val |-> 0]]
            /\ UNCHANGED <<pc, os>>
       ELSE /\ result' = [result EXCEPT ![t] = [op |-> "set", kind |-> "Ok", val |-> 0]]
            /\ IF os.manual
               THEN /\ os' = [os EXCEPT !.signaled = TRUE]
                    /\ pc' = [u \in Threads |-> IF pc[u] = "oswait" THEN "released" ELSE pc[u]]
               ELSE IF \E w \in Threads : pc[w] = "oswait"
               THEN /\ \E w \in Threads :
                           pc[w] = "oswait" /\ pc' = [pc EXCEPT ![w] = "released"]
                    /\ UNCHANGED os
               ELSE os' = [os EXCEPT !.signaled = TRUE] /\ UNCHANGED pc
    /\ UNCHANGED <<call, elapsed, deadline, handle>>

\* to_result(ResetEvent(self.0))
Native_reset(t) ==
    /\ pc[t] = "idle"
    /\ IF os.object # "open"
       THEN /\ result' = [result EXCEPT ![t] = [op |-> "reset", kind |-> "OsError", val |-> 0]]
            /\ UNCHANGED os
       ELSE /\ result' = [result EXCEPT ![t] = [op |-> "reset", kind |-> "Ok", val |-> 0]]
            /\ os' = [os EXCEPT !.signaled = FALSE]
    /\ UNCHANGED <<pc, call, elapsed, deadline, handle>>

\* impl Drop for WaitEvent: if !self.0.is_invalid() { CloseHandle(self.0);
\* self.0 = HANDLE::default() }
Drop(t) ==
    /\ pc[t] = "idle"
    /\ pc' = [pc EXCEPT ![t] = "dropped"]
    /\ IF handle[t] # "invalid"
       THEN /\ os' = [os EXCEPT !.object = "closed", !.closes = @ + 1]
            /\ handle' = [handle EXCEPT ![t] = "invalid"]
       ELSE UNCHANGED <<os, handle>>
    /\ UNCHANGED <<call, elapsed, deadline, result>>

\* time passes for the threads inside a bounded WaitForSingleObject
NativeTimed(t) ==
    /\ pc[t] = "oswait" /\ call[t].arg # INFINITE
    /\ ~Reached(elapsed[t], call[t].arg) /\ elapsed[t] < MaxTimeout
NativeTick ==
    /\ \E t \in Threads : NativeTimed(t)
    /\ elapsed' = [t \in Threads |-> IF NativeTimed(t) THEN elapsed[t] + 1 ELSE elapsed[t]]
    /\ UNCHANGED <<pc, call, deadline, result, os, handle>>

NativeNext ==
    \/ \E t \in Waiters : Native_wait_until_set(t) /\ UNCHANGED <<portable, hist>>
    \/ \E t \in Waiters, d \in NativeDurations : Native_wait(t, d) /\ UNCHANGED <<portable, hist>>
    \/ \E t \in Signallers : Native_set(t) /\ UNCHANGED <<portable, hist>>
    \/ \E t \in Signallers : Native_reset(t) /\ UNCHANGED <<portable, hist>>
    \/ \E t \in Threads : WaitForSingleObject(t) /\ UNCHANGED <<portable, hist>>
    \/ \E t \in Threads : WaitReleased(t) /\ UNCHANGED <<portable, hist>>
    \/ \E t \in Threads : WaitTimeout(t) /\ UNCHANGED <<portable, hist>>
    \/ \E t \in Threads : WaitOnClosed(t) /\ UNCHANGED <<portable, hist>>
    \/ \E t \in Threads : Drop(t) /\ UNCHANGED <<portable, hist>>
    \/ NativeTick /\ UNCHANGED <<portable, hist>>

NativeSpec == NativeInit /\ [][NativeNext]_vars

\* ------------------------------------------------------------- the claims
\* thread t returns from its call in this step
Returns(t) == pc[t] \in {"lock", "check", "relock", "reset"} /\ pc'[t] \in {"idle", "hold"}

\* C1: while a wait_reset has matched and not yet replaced (it is between the
\* successful checker evaluation and mem::replace), it holds the guard, no
\* other thread has or gains access to the value (to read it or to write
\* it), the value does not change, and when the call returns it returns
\* Ok(matched value), the matched value satisfied checker, the stored value
\* is reset() and the mutex is released in that same step.
C1_AtomicReset ==
    [][\A t \in Threads : pc[t] = "reset" =>
          /\ owner = t
          /\ checker(call[t].checker, value)
          /\ \A u \in Threads \ {t} :
                 /\ pc[u] \notin {"check", "hold", "reset"}
                 /\ pc'[u] \notin {"check", "hold", "reset"}
                 /\ result'[u].kind \in {result[u].kind, "none"}
          /\ IF pc'[t] = "idle"
             THEN /\ result'[t] = [op |-> "wait_reset", kind |-> "Ok", val |-> value]
                  /\ value' = call[t].arg
                  /\ owner' = 0
             ELSE value' = value]_vars

\* a wait_reset has returned the matched value and left another value
\* behind, while the other thread was waiting for the mutex to read or write
C1_Witness ==
    \E t, u \in Threads :
        /\ t # u
        /\ pc[t] = "idle" /\ result[t].op = "wait_reset" /\ result[t].kind = "Ok"
        /\ value # result[t].val
        /\ pc[u] = "lock" /\ call[u].op \in {"value", "set_state", "wait"}

\* C4 (as claimed): once a value satisfying its checker has been stored by
\* set_state during a wait(None, checker), the wait returns Ok (unless the
\* mutex is poisoned).
C4_EveryWriteSeen ==
    \A t \in GenericThreads :
        (call[t].op = "wait" /\ ~call[t].timeout.some /\ satIn[t])
            ~> (result[t].kind = "Ok" \/ poisoned)

\* C4 (amended): a wait(None, checker) returns Ok only with a snapshot that
\* satisfies checker and is the stored value; and while a value satisfying
\* checker is stored, the wait returns Ok unless that value is overwritten
\* before the wait evaluates checker again (or the mutex is poisoned): a
\* satisfying set_state(v) followed by another write may be missed.
C4_StoredValueSeen ==
    /\ [][\A t \in GenericThreads :
            (call[t].op = "wait" /\ ~call[t].timeout.some /\ Returns(t)
                 /\ result'[t].kind = "Ok")
                => checker(call[t].checker, value) /\ result'[t].val = value]_vars
    /\ \A t \in GenericThreads :
        (call[t].op = "wait" /\ ~call[t].timeout.some
             /\ checker(call[t].checker, value))
            ~> \/ result[t].kind = "Ok"
               \/ (call[t].op = "wait" /\ ~checker(call[t].checker, value))
               \/ poisoned

\* the waiting thread was blocked, the other thread stored the value it
\* waits for, and the wait has returned it
C4_Witness ==
    /\ result[Waiter].op = "wait" /\ result[Waiter].kind = "Ok"
    /\ satIn[Waiter] /\ pc[Waiter] = "hold"
    /\ result[Other].op = "set_state" /\ result[Other].kind = "Ok"
    /\ result[Waiter].val = value

\* C5 (as claimed): a wait with Some(d) returns Ok exactly when a value
\* satisfying checker was stored within d of the start of the call, and
\* Err(Timeout) otherwise.
C5_WindowDecides ==
    [][\A t \in Threads :
          (call[t].op = "wait" /\ call[t].timeout.some /\ pc[t] = "check" /\ Returns(t))
              => (result'[t].kind = "Ok" <=> satIn[t])]_vars

\* C5 (amended): what decides is the value stored when the call evaluates
\* checker under the lock. It returns Ok(v) only with v the stored value and
\* checker(v) true, also when v was written after the window; it returns
\* Err(Timeout) only when the stored value does not satisfy checker and at
\* least d has elapsed since the start, and then leaves the value as it is.
C5_EvaluationDecides ==
    [][\A t \in Threads :
          (call[t].op = "wait" /\ call[t].timeout.some /\ pc[t] = "check" /\ Returns(t))
              => IF checker(call[t].checker, value)
                 THEN result'[t] = [op |-> "wait", kind |-> "Ok", val |-> value]
                 ELSE /\ result'[t].kind = "Timeout"
                      /\ elapsed[t] >= call[t].timeout.d
                      /\ value' = value]_vars

\* a wait with a timeout returned Ok although no satisfying value was stored
\* within the window: the satisfying write came after it
C5_Witness ==
    \E t \in Threads :
        /\ result[t].op = "wait" /\ result[t].kind = "Ok"
        /\ ~satIn[t]

\* C6 (as claimed): every blocking step of a wait with Some(d) is given only
\* what remains of d, so it ends no later than d after the start of the call.
C6_RemainingBudget ==
    \A t \in Threads :
        (pc[t] = "blocked" /\ call[t].timeout.some) => deadline[t] <= call[t].timeout.d

\* C8: a wait_reset that returns anything but Ok (Timeout, or
\* SynchronizationBroken) leaves the stored value as it was.
C8_TimeoutKeepsValue ==
    [][\A t \in Threads :
          (call[t].op = "wait_reset" /\ Returns(t) /\ result'[t].kind # "Ok")
              => value' = value]_vars

\* a wait_reset has timed out after the other thread's set_state, and the
\* value is not the reset value
C8_Witness ==
    \E t, u \in Threads :
        /\ pc[t] = "idle" /\ result[t].op = "wait_reset" /\ result[t].kind = "Timeout"
        /\ pc[u] = "idle" /\ result[u].op = "set_state" /\ result[u].kind = "Ok"
        /\ value = MaxVal

C2_OneSetOneWaiter ==
    (~initial /\ nSet = 1 /\ ~anyReset) =>
        /\ nOk <= 1
        /\ value = (nOk = 0)
        /\ \A w \in Waiters :
            /\ pc[w] = "blocked" => nOk = 1
            /\ result[w].kind = "Ok" => result[w].val = TRUE

\* after the one set(), one waiter has returned Ok(true), the value is false
\* and the other waiter is blocked in wait_until_set()
C2_Witness ==
    /\ ~initial /\ nSet = 1 /\ ~anyReset /\ nOk = 1 /\ value = FALSE
    /\ \E w1, w2 \in Waiters :
        /\ w1 # w2
        /\ pc[w1] = "idle" /\ result[w1] = [op |-> "wait_reset", kind |-> "Ok", val |-> TRUE]
        /\ pc[w2] = "blocked" /\ ~call[w2].timeout.some

\* C3: ManualResetEvent. The value is what the last set()/reset() (or the
\* constructor) made it: waits never change it. A wait during whose whole
\* call the event was set does not block and does not time out, whatever its
\* timeout, and returns Ok(true); a wait during whose whole call the event
\* was reset does not return Ok.
C3_ManualPersistence ==
    /\ value = signal
    /\ \A w \in Waiters :
        /\ seen[w] = {TRUE} =>
              /\ pc[w] \notin {"blocked", "relock"}
              /\ result[w].kind \in {"none", "Ok"}
        /\ result[w].kind = "Ok" => result[w].val = TRUE
        /\ seen[w] = {FALSE} => result[w].kind # "Ok"

\* after a set(), both waiters have returned Ok(true) from waits made while
\* the event was set, and the event is still set
C3_Witness ==
    /\ ~initial /\ value = TRUE
    /\ \E s \in Signallers : result[s].op = "set_state" /\ result[s].kind = "Ok"
    /\ \A w \in Waiters :
        /\ pc[w] = "idle" /\ seen[w] = {TRUE}
        /\ result[w] = [op |-> "wait", kind |-> "Ok", val |-> TRUE]

\* C9: the waits of an AutoResetEvent that have returned Ok never outnumber
\* the set() calls that have taken effect, plus one if the event was
\* constructed set.
C9_OksBoundedBySets == nOk <= nSet + (IF initial THEN 1 ELSE 0)

\* two set() calls, each consumed by a wait, and a waiter blocked again
C9_Witness ==
    /\ ~initial /\ nSet = 2 /\ nOk = 2
    /\ \E w \in Waiters : pc[w] = "blocked"

\* C10: a set() makes the value true whatever it was and changes nothing
\* else of the mutex; however many set() calls preceded it, at most one wait
\* returns Ok after the last set(), and once one has, the value is false (so
\* the next wait blocks) until a further set().
C10_SetsCoalesce ==
    /\ [][\A t \in Threads :
            (pc[t] = "lock" /\ call[t].op = "set_state" /\ call[t].arg = TRUE
                 /\ pc'[t] = "idle")
                => value' = TRUE /\ owner' = owner /\ poisoned' = poisoned]_vars
    /\ [](sinceSet <= 1 /\ (sinceSet = 1 => value = FALSE))

\* two set() calls took effect before the only successful wait, and the
\* other waiter is blocked
C10_Witness ==
    /\ ~initial /\ nSet = 2 /\ nOk = 1 /\ sinceSet = 1 /\ ~anyReset
    /\ \E w \in Waiters : pc[w] = "blocked"

\* C11 (as claimed): every thread that set() found blocked in
\* wait_until_set() (it has been woken and the event is set) eventually
\* returns Ok(true), whatever set()/reset() calls follow.
C11_SetReleasesAll ==
    \A w \in Waiters :
        (pc[w] = "relock" /\ value = TRUE) ~> (result[w].kind = "Ok")

\* C11 (amended): a set() that takes effect wakes every thread blocked in
\* wait_until_set() (notify_all: none stays blocked), and a woken thread
\* returns Ok(true) unless a reset() takes effect before it has re-acquired
\* the mutex, in which case it blocks again and waits for the next set().
C11_SetWakesAll ==
    /\ [][\A t \in Threads :
            (pc[t] = "lock" /\ call[t].op = "set_state" /\ pc'[t] = "idle")
                => \A w \in Waiters : pc'[w] # "blocked"]_vars
    /\ [](\A w \in Waiters : pc[w] = "blocked" => value = FALSE)
    /\ \A w \in Waiters :
        (pc[w] = "relock" /\ value = TRUE)
            ~> (result[w] = [op |-> "wait", kind |-> "Ok", val |-> TRUE] \/ value = FALSE)

\* the event was reset when both waits began, a set() took effect, one
\* waiter has returned Ok(true) and the other has been woken
C11_Witness ==
    /\ value = TRUE
    /\ \E w1, w2 \in Waiters :
        /\ w1 # w2
        /\ pc[w1] = "idle" /\ seen[w1] = {FALSE, TRUE}
        /\ result[w1] = [op |-> "wait", kind |-> "Ok", val |-> TRUE]
        /\ pc[w2] = "relock" /\ seen[w2] = {FALSE, TRUE}

\* C12 (as claimed): the native wait(timeout)/wait_until_set() map a timed-out
\* OS wait to Err(Timeout) as the portable events do, so a native wait that
\* returns Ok returns Ok(true).
C12_NativeOkIsTrue ==
    \A t \in Threads :
        (result[t].op \in {"wait", "wait_until_set"} /\ result[t].kind = "Ok")
            => result[t].val = TRUE

\* C13 (as claimed): over any sequence of clone and drop on the handles of
\* one native event, CloseHandle is called with its handle value at most
\* once, and exactly once when every clone has been dropped.
C13_ReleasedOnce ==
    /\ os.closes <= 1
    /\ (\A t \in Threads : pc[t] = "dropped") => os.closes = 1

\* C14 (as claimed): the OS event handle stays valid as long as a clone of
\* the native event is alive: while a thread has not dropped its clone the
\* handle is open, and no wait/set/reset made through a live clone fails with
\* an OsError.
C14_ValidWhileCloneAlive ==
    /\ (\E t \in Threads : pc[t] # "dropped") => os.object = "open"
    /\ \A t \in Threads : result[t].kind # "OsError"

\* C20 (as claimed): the milliseconds a native wait(timeout) gives to the OS
\* wait are timeout.as_millis(), and never INFINITE.
C20_BoundedWait ==
    \A t \in Threads :
        call[t].op = "wait" =>
            /\ call[t].arg = as_millis(call[t].timeout.d)
            /\ call[t].arg # INFINITE

\* C15 (as claimed): every step that changes the stored value (set_state, or
\* the replacement of a wait_reset) notifies all current waiters: no thread
\* that was blocked on the condition variable is still blocked after it.
C15_MutationNotifies ==
    [][value' # value =>
          \A u \in Threads : pc[u] = "blocked" => pc'[u] = "relock"]_vars

\* C16: a wait/wait_reset returns only Ok, Err(Timeout) or
\* Err(SynchronizationBroken). It returns Ok only from an evaluation of
\* checker, holding the guard, with checker true of the stored value (never
\* straight from a wake); Err(Timeout) only when a timeout was given and has
\* elapsed; Err(SynchronizationBroken) only when the mutex is poisoned.
C16_ReleasedOnlyBy ==
    [][\A t \in Threads :
          (IsWait(t) /\ Returns(t)) =>
              /\ result'[t].kind \in {"Ok", "Timeout", "SynchronizationBroken"}
              /\ result'[t].kind = "Ok" =>
                     /\ pc[t] \in {"check", "reset"} /\ owner = t
                     /\ checker(call[t].checker, value)
              /\ result'[t].kind = "Timeout" =>
                     /\ call[t].timeout.some
                     /\ elapsed[t] >= call[t].timeout.d
              /\ result'[t].kind = "SynchronizationBroken" => poisoned]_vars

\* a thread woken after some time by a set_state that does not satisfy its
\* checker is evaluating checker again, and the checker is false
C16_Witness ==
    \E t, u \in Threads :
        /\ t # u
        /\ pc[t] = "check" /\ elapsed[t] > 0 /\ ~checker(call[t].checker, value)
        /\ result[u].op = "set_state" /\ result[u].kind = "Ok"

\* C17: at most one thread at a time holds the guard (evaluating checker,
\* replacing, or holding the snapshot returned by value()/wait()), and it is
\* the owner of the mutex; while a thread holds a snapshot the value does not
\* change and no call of another thread returns.
C17_ExclusiveAccess ==
    /\ [](\A t, u \in Threads :
            /\ pc[t] \in {"check", "reset", "hold"} <=> owner = t
            /\ (pc[t] \in {"check", "reset", "hold"} /\ pc[u] \in {"check", "reset", "hold"})
                   => t = u)
    /\ [][\A t \in Threads : pc[t] = "hold" =>
            /\ value' = value
            /\ \A u \in Threads \ {t} : ~Returns(u)]_vars

\* a thread holds the snapshot its wait returned while the other thread is in
\* a set_state of another value, waiting for the mutex
C17_Witness ==
    \E t, u \in Threads :
        /\ pc[t] = "hold" /\ result[t].op = "wait" /\ result[t].val = value
        /\ pc[u] = "lock" /\ call[u].op = "set_state" /\ call[u].arg # value

\* C19: wait evaluates checker before it blocks and after every wake, and
\* success comes before the timeout: a thread blocks only from an evaluation
\* where checker is false and the budget not exhausted; a woken thread
\* evaluates again (or reports poisoning); if checker is true at an
\* evaluation the call succeeds whatever the timeout and the time elapsed;
\* Err(Timeout) is returned only from an evaluation where checker is false;
\* and with Some(0) and a false checker the call returns Err(Timeout)
\* without blocking.
C19_PredicateFirst ==
    [][\A t \in Threads : IsWait(t) =>
          LET pass == checker(call[t].checker, value) IN
          /\ (pc[t] # "blocked" /\ pc'[t] = "blocked") =>
                 pc[t] = "check" /\ ~pass /\ waiter(call[t].timeout, elapsed[t])
          /\ (pc[t] = "relock" /\ pc'[t] # "relock") =>
                 pc'[t] = "check" \/ result'[t].kind = "SynchronizationBroken"
          /\ (pc[t] = "check" /\ pass /\ pc'[t] \notin {"check", "panicked"}) =>
                 IF call[t].op = "wait"
                 THEN result'[t] = [op |-> "wait", kind |-> "Ok", val |-> value]
                 ELSE pc'[t] = "reset"
          /\ (Returns(t) /\ result'[t].kind = "Timeout") => pc[t] = "check" /\ ~pass
          /\ (pc[t] = "check" /\ ~pass /\ call[t].timeout = Some(0)
                  /\ pc'[t] \notin {"check", "panicked"}) =>
                 pc'[t] = "idle" /\ result'[t].kind = "Timeout"]_vars

\* a wait_reset with a zero timeout that found checker true: it has matched
\* and is about to replace
C19_Witness ==
    \E t \in Threads :
        /\ pc[t] = "reset" /\ call[t].timeout = Some(0)
        /\ checker(call[t].checker, value)

\* C18: once the mutex is poisoned the stored value never changes again; a
\* set_state or value() that reaches the mutex returns
\* Err(SynchronizationBroken), and in that step no other thread moves (no
\* waiter is notified); and no call returns Ok.
C18_PoisonedSetState ==
    [][poisoned =>
          /\ value' = value
          /\ \A t \in Threads :
              /\ (pc[t] = "lock" /\ call[t].op \in {"set_state", "value"}
                      /\ pc'[t] # "lock") =>
                     /\ pc'[t] = "idle"
                     /\ result'[t] = [op |-> call[t].op,
                                      kind |-> "SynchronizationBroken", val |-> 0]
                     /\ \A u \in Threads \ {t} : pc'[u] = pc[u]
              /\ Returns(t) => result'[t].kind # "Ok"]_vars

\* one waiter panicked holding the guard, the writer's set_state has
\* returned Err(SynchronizationBroken), and the other waiter is still blocked
C18_Witness ==
    /\ poisoned
    /\ \E s \in Signallers :
           result[s] = [op |-> "set_state", kind |-> "SynchronizationBroken", val |-> 0]
    /\ \E w1, w2 \in Waiters : pc[w1] = "panicked" /\ pc[w2] = "blocked"

====
